---------------------------- MODULE Spec2Model ----------------------------
(***************************************************************************)
(* Model of src/data_provider/us_index_mapping.py: the US / Japan ticker   *)
(* classifier (two index tables, two stock patterns, seven functions).     *)
(*                                                                         *)
(* A Python str is a sequence of characters.  A character is a one-letter  *)
(* TLA+ string; the characters outside printable ASCII are written by      *)
(* their escape or code point:                                             *)
(*    "\t" "\n"   TAB, LINE FEED                                           *)
(*    "U+3000"    IDEOGRAPHIC SPACE        (str.isspace)                   *)
(*    "U+FF17"    FULLWIDTH DIGIT SEVEN    (category Nd)                   *)
(*    "U+00B2"    SUPERSCRIPT TWO          (category No, Numeric_Type      *)
(*                                          Digit)                         *)
(*    "U+00DF"    LATIN SMALL LETTER SHARP S (uppercases to "SS")          *)
(* None is the one-element tuple <<"None">>, which is no str because       *)
(* "None" is no character.  A display name of an index table is a          *)
(* one-element tuple holding the English rendering of the Chinese name.    *)
(***************************************************************************)
EXTENDS Naturals, Sequences, FiniteSets, TLC

VARIABLES
    US_INDEX_MAPPING,   \* the module-level dict of US indices
    JP_INDEX_MAPPING,   \* the module-level dict of Japan indices
    active,             \* the callers that make calls in this behaviour
    arg,                \* arg[c]: the input caller c passes
    op,                 \* op[c]: the function caller c called last
    ret                 \* ret[c]: what that call returned (or raised)

vars == <<US_INDEX_MAPPING, JP_INDEX_MAPPING, active, arg, op, ret>>

-----------------------------------------------------------------------------
(* Characters *)

None == <<"None">>

UPPERCASE == <<"A","B","C","D","E","F","G","H","I","J","K","L","M",
               "N","O","P","Q","R","S","T","U","V","W","X","Y","Z">>
LOWERCASE == <<"a","b","c","d","e","f","g","h","i","j","k","l","m",
               "n","o","p","q","r","s","t","u","v","w","x","y","z">>

AZ == {UPPERCASE[i] : i \in DOMAIN UPPERCASE}
az == {LOWERCASE[i] : i \in DOMAIN LOWERCASE}

AsciiDigit == {"0","1","2","3","4","5","6","7","8","9"}

\* str.isspace(): the characters str.strip() removes
Whitespace == {" ", "\t", "\n", "U+3000"}

\* Unicode category Nd: what \d matches in a str pattern
DecimalDigit == AsciiDigit \cup {"U+FF17"}

\* str.isdigit(): Numeric_Type Digit or Decimal
IsDigitChar == DecimalDigit \cup {"U+00B2"}

IsStr(x) == x # None


-----------------------------------------------------------------------------
(* Python's str primitives, as the functions use them *)

\* code, without the "or ''"
OrEmptyMissing(code) == code

\* code or '' : None (falsy) and '' both give ''
OrEmpty(code) == IF code = None \/ code = <<>> THEN <<>> ELSE code

RECURSIVE lstrip(_)
lstrip(s) == IF s # <<>> /\ Head(s) \in Whitespace THEN lstrip(Tail(s)) ELSE s

RECURSIVE rstrip(_)
rstrip(s) ==
    IF s # <<>> /\ s[Len(s)] \in Whitespace
    THEN rstrip(SubSeq(s, 1, Len(s) - 1))
    ELSE s

\* str.lstrip() in the place of str.strip()
stripLeftOnly(s) == lstrip(s)

\* str.strip(): leading and trailing whitespace removed
strip(s) == rstrip(lstrip(s))

\* the uppercase mapping of one character (a str: one character may give two)
upperChar(ch) ==
    IF ch \in az
    THEN <<UPPERCASE[CHOOSE i \in DOMAIN LOWERCASE : LOWERCASE[i] = ch]>>
    ELSE IF ch = "U+00DF" THEN <<"S", "S">>
    ELSE <<ch>>

\* the simple lowercase mapping re.IGNORECASE compares characters by
lowerChar(ch) ==
    IF ch \in AZ
    THEN LOWERCASE[CHOOSE i \in DOMAIN UPPERCASE : UPPERCASE[i] = ch]
    ELSE ch

RECURSIVE upperFrom(_)
upperFrom(s) == IF s = <<>> THEN <<>> ELSE upperChar(Head(s)) \o upperFrom(Tail(s))

\* the str left as it is
upperIdentity(s) == s

\* str.upper()
upper(s) == upperFrom(s)

\* str.isdigit(): non-empty and every character a digit
isdigit(s) == s # <<>> /\ \A i \in DOMAIN s : s[i] \in IsDigitChar

startswith(s, p) == Len(s) >= Len(p) /\ SubSeq(s, 1, Len(p)) = p

endswith(s, p) == Len(s) >= Len(p) /\ SubSeq(s, Len(s) - Len(p) + 1, Len(s)) = p

\* s[n:]
SliceFrom(s, n) == SubSeq(s, n + 1, Len(s))

\* s[:-n]
SliceButLast(s, n) == SubSeq(s, 1, Len(s) - n)

\* dict.get(key, default)
DictGet(d, key, default) == IF key \in DOMAIN d THEN d[key] ELSE default

-----------------------------------------------------------------------------
(* Regular expressions *)

\* $ without re.MULTILINE: the end of the string, or just before a final "\n"
AtDollar(rest) == rest = <<>> \/ rest = <<"\n">>

\* a pattern letter under re.IGNORECASE
IgnoreCaseEq(ch, lit) == lowerChar(ch) = lowerChar(lit)

\* \d{4} at the head of s, for a given digit class
FourOf(s, class) == Len(s) >= 4 /\ \A i \in 1..4 : s[i] \in class

\* the pattern without its closing $
US_STOCK_PATTERN_open(s) ==
    \E n \in 1..5 : n <= Len(s) /\ \A i \in 1..n : s[i] \in AZ

\* ^[A-Z]{1,5}(\.[A-Z])?$ with re.match
_US_STOCK_PATTERN(s) ==
    \E n \in 1..5 :
        /\ n <= Len(s)
        /\ \A i \in 1..n : s[i] \in AZ
        /\ LET rest == SliceFrom(s, n)
           IN  \/ AtDollar(rest)
               \/ /\ Len(rest) >= 2
                  /\ rest[1] = "."
                  /\ rest[2] \in AZ
                  /\ AtDollar(SliceFrom(rest, 2))

\* ^(JP\d{4}|\d{4}(\.T)?)$ with re.IGNORECASE and re.match, over a digit class
JpPattern(s, class) ==
    \/ /\ Len(s) >= 2
       /\ IgnoreCaseEq(s[1], "J")
       /\ IgnoreCaseEq(s[2], "P")
       /\ FourOf(SliceFrom(s, 2), class)
       /\ AtDollar(SliceFrom(s, 6))
    \/ /\ FourOf(s, class)
       /\ LET rest == SliceFrom(s, 4)
          IN  \/ AtDollar(rest)
              \/ /\ Len(rest) >= 2
                 /\ rest[1] = "."
                 /\ IgnoreCaseEq(rest[2], "T")
                 /\ AtDollar(SliceFrom(rest, 2))

\* the pattern with [A-Z0-9] in the place of \d
JP_STOCK_PATTERN_word(s) == JpPattern(s, DecimalDigit \cup AZ \cup az)

\* the pattern without its closing $
JP_STOCK_PATTERN_open(s) ==
    \/ /\ Len(s) >= 2
       /\ IgnoreCaseEq(s[1], "J")
       /\ IgnoreCaseEq(s[2], "P")
       /\ FourOf(SliceFrom(s, 2), DecimalDigit)
    \/ FourOf(s, DecimalDigit)

_JP_STOCK_PATTERN(s) == JpPattern(s, DecimalDigit)

-----------------------------------------------------------------------------
(* The index tables *)

SP500 == <<"S&P 500 Index">>
DOW == <<"Dow Jones Industrial Index">>
NASDAQ_COMPOSITE == <<"Nasdaq Composite Index">>
NASDAQ_100 == <<"Nasdaq 100 Index">>
VIX_NAME == <<"VIX Fear Index">>
RUSSELL_2000 == <<"Russell 2000 Index">>
NIKKEI_225 == <<"Nikkei 225 Index">>
TOPIX_NAME == <<"Tokyo Stock Price Index">>

yGSPC == <<"^","G","S","P","C">>
yDJI == <<"^","D","J","I">>
yIXIC == <<"^","I","X","I","C">>
yNDX == <<"^","N","D","X">>
yVIX == <<"^","V","I","X">>
yRUT == <<"^","R","U","T">>
yN225 == <<"^","N","2","2","5">>
yTOPX == <<"^","T","O","P","X">>

\* a dict literal: the list of its (key, value) items
DictOf(items) ==
    [k \in {items[i][1] : i \in DOMAIN items} |->
        items[CHOOSE i \in DOMAIN items : items[i][1] = k][2]]

US_INDEX_TABLE ==
    DictOf(<<
        << <<"S","P","X">>,             <<yGSPC, SP500>> >>,
        << yGSPC,                       <<yGSPC, SP500>> >>,
        << <<"G","S","P","C">>,         <<yGSPC, SP500>> >>,
        << <<"D","J","I">>,             <<yDJI, DOW>> >>,
        << yDJI,                        <<yDJI, DOW>> >>,
        << <<"D","J","I","A">>,         <<yDJI, DOW>> >>,
        << <<"I","X","I","C">>,         <<yIXIC, NASDAQ_COMPOSITE>> >>,
        << yIXIC,                       <<yIXIC, NASDAQ_COMPOSITE>> >>,
        << <<"N","A","S","D","A","Q">>, <<yIXIC, NASDAQ_COMPOSITE>> >>,
        << <<"N","D","X">>,             <<yNDX, NASDAQ_100>> >>,
        << yNDX,                        <<yNDX, NASDAQ_100>> >>,
        << <<"V","I","X">>,             <<yVIX, VIX_NAME>> >>,
        << yVIX,                        <<yVIX, VIX_NAME>> >>,
        << <<"R","U","T">>,             <<yRUT, RUSSELL_2000>> >>,
        << yRUT,                        <<yRUT, RUSSELL_2000>> >>
    >>)

JP_INDEX_TABLE ==
    DictOf(<<
        << <<"N","2","2","5">>,         <<yN225, NIKKEI_225>> >>,
        << yN225,                       <<yN225, NIKKEI_225>> >>,
        << <<"N","I","K","K","E","I">>, <<yN225, NIKKEI_225>> >>,
        << <<"T","O","P","I","X">>,     <<yTOPX, TOPIX_NAME>> >>,
        << yTOPX,                       <<yTOPX, TOPIX_NAME>> >>
    >>)

-----------------------------------------------------------------------------
(* Return values *)

NoneTuple == <<None, None>>

NoCall == [kind |-> "none", b |-> FALSE, t |-> NoneTuple]

\* a bool result
Bool(b) == [kind |-> "bool", b |-> b, t |-> NoneTuple]

\* a tuple result (symbol, name)
Tuple(t) == [kind |-> "tuple", b |-> FALSE, t |-> t]

\* the call ended in an exception instead of a value
Raised == [kind |-> "raise", b |-> FALSE, t |-> NoneTuple]

\* the normalized code of a call, or NotAStr when .strip() is called on a
\* value that is no str (Python raises AttributeError there)
NotAStr == <<"AttributeError">>

Normalized(code) ==
    LET s == OrEmpty(code)
    IN  IF IsStr(s) THEN upper(strip(s)) ELSE NotAStr

-----------------------------------------------------------------------------
(* The seven functions: the value each returns, given the tables it reads *)

is_us_index_code_value(code, us) ==
    LET normalized == Normalized(code)
    IN  IF normalized = NotAStr THEN Raised
        ELSE Bool(normalized \in DOMAIN us)

is_us_stock_code_value(code, us) ==
    LET normalized == Normalized(code)
    IN  IF normalized = NotAStr THEN Raised
        ELSE IF normalized \in DOMAIN us THEN Bool(FALSE)
        ELSE Bool(_US_STOCK_PATTERN(normalized))

get_us_index_yf_symbol_value(code, us) ==
    LET normalized == Normalized(code)
    IN  IF normalized = NotAStr THEN Raised
        ELSE Tuple(DictGet(us, normalized, NoneTuple))

is_jp_stock_code_value(code) ==
    LET normalized == Normalized(code)
    IN  IF normalized = NotAStr THEN Raised
        ELSE Bool(_JP_STOCK_PATTERN(normalized))

get_jp_stock_yf_symbol_value(code) ==
    LET normalized == Normalized(code)
    IN  IF normalized = NotAStr THEN Raised
        ELSE IF /\ startswith(normalized, <<"J", "P">>)
                /\ Len(normalized) = 6
                /\ isdigit(SliceFrom(normalized, 2))
        THEN Tuple(<<SliceFrom(normalized, 2) \o <<".", "T">>, None>>)
        ELSE IF /\ endswith(normalized, <<".", "T">>)
                /\ isdigit(SliceButLast(normalized, 2))
                /\ Len(SliceButLast(normalized, 2)) = 4
        THEN Tuple(<<normalized, None>>)
        ELSE IF isdigit(normalized) /\ Len(normalized) = 4
        THEN Tuple(<<normalized \o <<".", "T">>, None>>)
        ELSE Tuple(NoneTuple)

is_jp_index_code_value(code, jp) ==
    LET normalized == Normalized(code)
    IN  IF normalized = NotAStr THEN Raised
        ELSE Bool(normalized \in DOMAIN jp)

get_jp_index_yf_symbol_value(code, jp) ==
    LET normalized == Normalized(code)
    IN  IF normalized = NotAStr THEN Raised
        ELSE Tuple(DictGet(jp, normalized, NoneTuple))

-----------------------------------------------------------------------------
(* Bounds and inputs *)

NumCallers == 2
MaxPad == 1
MaxRun == 4
MaxTail == 3
MaxSuffix == 2

Callers == 1..NumCallers

SeqsUpTo(A, n) == UNION {[1..k -> A] : k \in 0..n}

Rep(ch, k) == [i \in 1..k |-> ch]


\* whitespace put before and after a code
PadChars == {" ", "\n"}

Pads == SeqsUpTo(PadChars, MaxPad)

Padded(S) == {l \o v \o r : l \in Pads, r \in Pads, v \in S}

lowerStr(s) == [i \in DOMAIN s |-> lowerChar(s[i])]

mixedStr(s) == [i \in DOMAIN s |-> IF i % 2 = 1 THEN lowerChar(s[i]) ELSE s[i]]

CaseVariants(s) == {s, lowerStr(s), mixedStr(s)}

Keys == DOMAIN US_INDEX_TABLE \cup DOMAIN JP_INDEX_TABLE

\* the codes of the docstrings, and characters of each special class
Examples ==
    { <<"A","A","P","L">>, <<"T","S","L","A">>, <<"B","R","K",".","B">>,
      <<"6","0","0","5","1","9">>, <<"J","P","7","2","0","3">>,
      <<"7","2","0","3">>, <<"7","2","0","3",".","T">>,
      <<"U+00DF">>, <<"\t","S","P","X","U+3000">>, <<"\t">>, <<"U+3000">>,
      <<"U+FF17","U+FF17","U+FF17","U+FF17">>,
      <<"U+00B2","U+00B2","U+00B2","U+00B2">>,
      <<"J","P","U+00B2","U+00B2","U+00B2","U+00B2">>,
      <<"J","7","2","0","3">>, <<"P","J","7","2","0","3">>,
      <<"7","2","0","3","\n">>, <<"7","2","0","3",".","T","T">>,
      <<"A","A","P","L","\n","X">> }

KeyInputs == Padded(UNION {CaseVariants(k) : k \in Keys \cup Examples})

USAlphabet == {"A", "z", ".", "7", " ", "^"}

USInputs ==
    {Rep("A", k) \o t : k \in 0..MaxRun, t \in SeqsUpTo(USAlphabet, MaxTail)}

JPAlphabet == {"7", "U+FF17", "U+00B2", ".", "T", "t"}

JPPrefixes == {<<>>, <<"J","P">>, <<"j","p">>}

JPInputs ==
    {p \o Rep("7", k) \o t :
        p \in JPPrefixes, k \in 0..MaxRun, t \in SeqsUpTo(JPAlphabet, MaxSuffix)}

Inputs == {None} \cup KeyInputs \cup USInputs \cup JPInputs

\* the inputs of concurrent callers
SmallInputs ==
    { None, <<" ","s","p","x"," ">>, <<"S","P","X">>, <<"T","O","P","I","X">>,
      <<"n","2","2","5">>, <<"7","2","0","3",".","t">> }

-----------------------------------------------------------------------------
(* The state machine: callers calling the seven functions *)

Returns(c, name, value) ==
    /\ c \in active
    /\ op' = [op EXCEPT ![c] = name]
    /\ ret' = [ret EXCEPT ![c] = value]
    /\ UNCHANGED <<active, arg>>

is_us_index_code(c) ==
    /\ Returns(c, "is_us_index_code",
               is_us_index_code_value(arg[c], US_INDEX_MAPPING))
    /\ UNCHANGED <<US_INDEX_MAPPING, JP_INDEX_MAPPING>>

is_us_stock_code(c) ==
    /\ Returns(c, "is_us_stock_code",
               is_us_stock_code_value(arg[c], US_INDEX_MAPPING))
    /\ UNCHANGED <<US_INDEX_MAPPING, JP_INDEX_MAPPING>>

\* as get_us_index_yf_symbol, with dict.pop in the place of dict.get
get_us_index_yf_symbol_pop(c) ==
    /\ Returns(c, "get_us_index_yf_symbol",
               get_us_index_yf_symbol_value(arg[c], US_INDEX_MAPPING))
    /\ US_INDEX_MAPPING' =
          [k \in DOMAIN US_INDEX_MAPPING \ {Normalized(arg[c])} |->
              US_INDEX_MAPPING[k]]
    /\ UNCHANGED JP_INDEX_MAPPING

get_us_index_yf_symbol(c) ==
    /\ Returns(c, "get_us_index_yf_symbol",
               get_us_index_yf_symbol_value(arg[c], US_INDEX_MAPPING))
    /\ UNCHANGED <<US_INDEX_MAPPING, JP_INDEX_MAPPING>>

is_jp_stock_code(c) ==
    /\ Returns(c, "is_jp_stock_code", is_jp_stock_code_value(arg[c]))
    /\ UNCHANGED <<US_INDEX_MAPPING, JP_INDEX_MAPPING>>

get_jp_stock_yf_symbol(c) ==
    /\ Returns(c, "get_jp_stock_yf_symbol", get_jp_stock_yf_symbol_value(arg[c]))
    /\ UNCHANGED <<US_INDEX_MAPPING, JP_INDEX_MAPPING>>

is_jp_index_code(c) ==
    /\ Returns(c, "is_jp_index_code",
               is_jp_index_code_value(arg[c], JP_INDEX_MAPPING))
    /\ UNCHANGED <<US_INDEX_MAPPING, JP_INDEX_MAPPING>>

get_jp_index_yf_symbol(c) ==
    /\ Returns(c, "get_jp_index_yf_symbol",
               get_jp_index_yf_symbol_value(arg[c], JP_INDEX_MAPPING))
    /\ UNCHANGED <<US_INDEX_MAPPING, JP_INDEX_MAPPING>>

\* the module is imported: both tables hold their literals, nothing was called
Loaded ==
    /\ US_INDEX_MAPPING = US_INDEX_TABLE
    /\ JP_INDEX_MAPPING = JP_INDEX_TABLE
    /\ op = [c \in Callers |-> "none"]
    /\ ret = [c \in Callers |-> NoCall]

\* one caller, any input
Init ==
    /\ Loaded
    /\ active = {1}
    /\ arg \in {[c \in Callers |-> IF c = 1 THEN x ELSE None] : x \in Inputs}

\* every caller calls, each with its own input
InitConcurrent ==
    /\ Loaded
    /\ active = Callers
    /\ arg \in [Callers -> SmallInputs]

Next ==
    \E c \in Callers :
        \/ is_us_index_code(c)
        \/ is_us_stock_code(c)
        \/ get_us_index_yf_symbol(c)
        \/ is_jp_stock_code(c)
        \/ get_jp_stock_yf_symbol(c)
        \/ is_jp_index_code(c)
        \/ get_jp_index_yf_symbol(c)

Spec == Init /\ [][Next]_vars

SpecConcurrent == InitConcurrent /\ [][Next]_vars

-----------------------------------------------------------------------------
(* The vocabulary of the properties, stated apart from the functions' code *)

\* trimmed: from the first to the last character that is no whitespace
Trimmed(s) ==
    LET keep == {i \in DOMAIN s : s[i] \notin {" ", "\t", "\n", "U+3000"}}
    IN  IF keep = {} THEN <<>>
        ELSE SubSeq(s, CHOOSE i \in keep : \A j \in keep : i <= j,
                       CHOOSE i \in keep : \A j \in keep : i >= j)

\* uppercased, from the last character backwards
RECURSIVE Uppercased(_)
Uppercased(s) ==
    IF Len(s) = 0 THEN <<>>
    ELSE LET ch == s[Len(s)]
             up == IF \E i \in 1..26 : LOWERCASE[i] = ch
                   THEN <<UPPERCASE[CHOOSE i \in 1..26 : LOWERCASE[i] = ch]>>
                   ELSE IF ch = "U+00DF" THEN <<"S", "S">> ELSE <<ch>>
         IN  Uppercased(SubSeq(s, 1, Len(s) - 1)) \o up

\* the normalized code: absent gives the empty string
NormalizedCode(code) == IF code = None THEN <<>> ELSE Uppercased(Trimmed(code))

\* a digit: a decimal digit, ASCII or not (FULLWIDTH DIGIT SEVEN is one,
\* SUPERSCRIPT TWO is not)
Digit == {"0","1","2","3","4","5","6","7","8","9","U+FF17"}

Digits4(s) == Len(s) = 4 /\ \A i \in 1..4 : s[i] \in Digit

Letter(ch) == \E i \in 1..26 : UPPERCASE[i] = ch

\* 1 to 5 letters A-Z, optionally followed by a dot and exactly one letter
USStockShape(n) ==
    \E k \in 1..5 :
        /\ Len(n) \in {k, k + 2}
        /\ \A i \in 1..k : Letter(n[i])
        /\ Len(n) = k + 2 => n[k + 1] = "." /\ Letter(n[k + 2])

\* 4 digits, or 4 digits and ".T", or "JP" and 4 digits
JPStockShape(n) ==
    \/ Digits4(n)
    \/ Len(n) = 6 /\ Digits4(SubSeq(n, 1, 4)) /\ SubSeq(n, 5, 6) = <<".", "T">>
    \/ Len(n) = 6 /\ SubSeq(n, 1, 2) = <<"J", "P">> /\ Digits4(SubSeq(n, 3, 6))

\* the symbol the translation rules give a normalized code, in their order
JPStockSymbol(n) ==
    IF Len(n) = 6 /\ SubSeq(n, 1, 2) = <<"J", "P">> /\ Digits4(SubSeq(n, 3, 6))
    THEN SubSeq(n, 3, 6) \o <<".", "T">>
    ELSE IF Len(n) = 6 /\ Digits4(SubSeq(n, 1, 4)) /\ SubSeq(n, 5, 6) = <<".", "T">>
    THEN n
    ELSE IF Digits4(n) THEN n \o <<".", "T">>
    ELSE None

BoolOps == {"is_us_index_code", "is_us_stock_code", "is_jp_stock_code", "is_jp_index_code"}

TupleOps == {"get_us_index_yf_symbol", "get_jp_stock_yf_symbol", "get_jp_index_yf_symbol"}

\* what function name returns on code now
ValueOf(name, code) ==
    CASE name = "is_us_index_code" -> is_us_index_code_value(code, US_INDEX_MAPPING)
      [] name = "is_us_stock_code" -> is_us_stock_code_value(code, US_INDEX_MAPPING)
      [] name = "get_us_index_yf_symbol" -> get_us_index_yf_symbol_value(code, US_INDEX_MAPPING)
      [] name = "is_jp_stock_code" -> is_jp_stock_code_value(code)
      [] name = "get_jp_stock_yf_symbol" -> get_jp_stock_yf_symbol_value(code)
      [] name = "is_jp_index_code" -> is_jp_index_code_value(code, JP_INDEX_MAPPING)
      [] name = "get_jp_index_yf_symbol" -> get_jp_index_yf_symbol_value(code, JP_INDEX_MAPPING)

IsTrue(r) == r.kind = "bool" /\ r.b

-----------------------------------------------------------------------------
(* Properties *)

\* C1: a code that is_us_index_code or is_jp_index_code recognizes is never
\* classified as a stock: neither is_us_stock_code nor is_jp_stock_code
\* returns true for it.
C1_IndexNeverStock ==
    \A c \in active :
        (op[c] \in {"is_us_stock_code", "is_jp_stock_code"} /\ IsTrue(ret[c]))
            => /\ ~IsTrue(is_us_index_code_value(arg[c], US_INDEX_MAPPING))
               /\ ~IsTrue(is_jp_index_code_value(arg[c], JP_INDEX_MAPPING))

\* C2: is_us_stock_code returns false when the normalized code is a key of the
\* US index table, and otherwise true exactly when the whole normalized code
\* is 1 to 5 letters A-Z optionally followed by a dot and one letter A-Z.
C2_UsStockCode ==
    \A c \in active :
        op[c] = "is_us_stock_code" =>
            LET n == NormalizedCode(arg[c])
            IN  ret[c] = Bool(n \notin DOMAIN US_INDEX_TABLE /\ USStockShape(n))

\* a variant of an index key that has the shape of a stock code was refused
C2_Witness ==
    \E c \in active :
        /\ op[c] = "is_us_stock_code"
        /\ arg[c] = <<" ", "d", "J", "i", "A", " ">>
        /\ USStockShape(NormalizedCode(arg[c]))
        /\ ret[c] = Bool(FALSE)

\* C3: get_jp_stock_yf_symbol applies its rules in order on the normalized
\* code: "JP" and exactly 4 digits gives the 4 digits and ".T"; 4 digits and
\* ".T" gives the code itself; 4 digits gives the code and ".T"; every other
\* input gives (absent, absent); the name is always absent.
C3_JpStockSymbol ==
    \A c \in active :
        op[c] = "get_jp_stock_yf_symbol" =>
            ret[c] = Tuple(<<JPStockSymbol(NormalizedCode(arg[c])), None>>)

\* C4: is_us_index_code / is_jp_index_code return true exactly for the keys
\* of their table, and get_us_index_yf_symbol / get_jp_index_yf_symbol return
\* the pair mapped to the normalized code, or (absent, absent) for no key.
C4_IndexTables ==
    \A c \in active :
        LET n == NormalizedCode(arg[c])
        IN  /\ op[c] = "is_us_index_code" =>
                ret[c] = Bool(n \in DOMAIN US_INDEX_TABLE)
            /\ op[c] = "is_jp_index_code" =>
                ret[c] = Bool(n \in DOMAIN JP_INDEX_TABLE)
            /\ op[c] = "get_us_index_yf_symbol" =>
                ret[c] = Tuple(IF n \in DOMAIN US_INDEX_TABLE
                               THEN US_INDEX_TABLE[n] ELSE NoneTuple)
            /\ op[c] = "get_jp_index_yf_symbol" =>
                ret[c] = Tuple(IF n \in DOMAIN JP_INDEX_TABLE
                               THEN JP_INDEX_TABLE[n] ELSE NoneTuple)

\* the lookup of a padded, mixed-case key gave the key's pair
C4_Witness ==
    \E c \in active :
        /\ op[c] = "get_jp_index_yf_symbol"
        /\ arg[c] = <<" ", "n", "I", "k", "K", "e", "I", " ">>
        /\ ret[c] = Tuple(<<yN225, NIKKEI_225>>)

\* C5: is_jp_stock_code returns true exactly when the whole normalized code
\* is 4 digits, or 4 digits and ".T", or "JP" and 4 digits, each letter in
\* its uppercase form: matching the normalized code case-insensitively
\* accepts nothing more (jp7203 and 7203.t are accepted as JP7203, 7203.T).
C5_JpStockCode ==
    \A c \in active :
        op[c] = "is_jp_stock_code" =>
            ret[c] = Bool(JPStockShape(NormalizedCode(arg[c])))

\* a lowercase, padded code was accepted
C5_Witness ==
    \E c \in active :
        /\ op[c] = "is_jp_stock_code"
        /\ arg[c] = <<" ", "7", "2", "0", "3", ".", "t", " ">>
        /\ ret[c] = Bool(TRUE)

\* C6: for every key of the Japan index table and each of its case and
\* whitespace variants, is_jp_stock_code returns false and
\* get_jp_stock_yf_symbol returns (absent, absent).
C6_JpIndexNoStock ==
    \A c \in active :
        NormalizedCode(arg[c]) \in DOMAIN JP_INDEX_TABLE =>
            /\ op[c] = "is_jp_stock_code" => ret[c] = Bool(FALSE)
            /\ op[c] = "get_jp_stock_yf_symbol" => ret[c] = Tuple(NoneTuple)

\* a padded lowercase N225 was refused as a stock
C6_Witness ==
    \E c \in active :
        /\ op[c] = "is_jp_stock_code"
        /\ arg[c] = <<" ", "n", "2", "2", "5", " ">>
        /\ ret[c] = Bool(FALSE)

\* C7: no call raises; a bool function returns a bool and a lookup a pair;
\* for absent, empty or whitespace-only input the bool is false and the pair
\* is (absent, absent).
C7_NeverRaises ==
    \A c \in active :
        /\ op[c] \in BoolOps => ret[c].kind = "bool"
        /\ op[c] \in TupleOps => ret[c].kind = "tuple"
        /\ (arg[c] = None \/ \A i \in DOMAIN arg[c] : arg[c][i] \in Whitespace) =>
              /\ op[c] \in BoolOps => ret[c] = Bool(FALSE)
              /\ op[c] \in TupleOps => ret[c] = Tuple(NoneTuple)

\* a lookup was called with absent input and returned (absent, absent)
C7_Witness ==
    \E c \in active :
        /\ op[c] = "get_jp_stock_yf_symbol"
        /\ arg[c] = None
        /\ ret[c] = Tuple(NoneTuple)

\* C8: the result of every function on an input is its result on the
\* normalized code (the input trimmed and uppercased), and normalizing a
\* normalized code returns it unchanged.
C8_CaseAndSpaceInsensitive ==
    \A c \in active :
        LET n == NormalizedCode(arg[c])
        IN  /\ op[c] # "none" => ret[c] = ValueOf(op[c], n)
            /\ Normalized(n) = n
            /\ Normalized(Normalized(arg[c])) = Normalized(arg[c])

\* a padded lowercase code was translated as its normalized form is
C8_Witness ==
    \E c \in active :
        /\ op[c] = "get_jp_stock_yf_symbol"
        /\ arg[c] = <<" ", "7", "2", "0", "3", ".", "t", " ">>
        /\ ret[c] = Tuple(<<<<"7", "2", "0", "3", ".", "T">>, None>>)
        /\ ret[c] = get_jp_stock_yf_symbol_value(<<"7", "2", "0", "3", ".", "T">>)

\* C9: after any calls from any callers both tables hold their initial
\* contents, and two calls of one function with one input, made at any two
\* points, return the same result.
C9_Pure ==
    /\ US_INDEX_MAPPING = US_INDEX_TABLE
    /\ JP_INDEX_MAPPING = JP_INDEX_TABLE
    /\ \A c, d \in active :
          (op[c] # "none" /\ op[c] = op[d] /\ arg[c] = arg[d]) => ret[c] = ret[d]

\* two callers looked the same key up and both got its pair
C9_Witness ==
    \E c, d \in active :
        /\ c # d
        /\ arg[c] = <<"S", "P", "X">> /\ arg[d] = arg[c]
        /\ op[c] = "get_us_index_yf_symbol" /\ op[d] = op[c]
        /\ ret[c] = Tuple(<<yGSPC, SP500>>) /\ ret[d] = ret[c]

\* C10: get_jp_stock_yf_symbol returns a symbol exactly when is_jp_stock_code
\* returns true; a returned symbol is 4 digits and ".T", is accepted by
\* is_jp_stock_code and is returned unchanged by get_jp_stock_yf_symbol.
C10_ClassifierTranslatorAgree ==
    \A c \in active :
        op[c] = "get_jp_stock_yf_symbol" =>
            LET symbol == ret[c].t[1]
            IN  /\ ret[c].kind = "tuple"
                /\ symbol # None <=> IsTrue(is_jp_stock_code_value(arg[c]))
                /\ symbol # None =>
                      /\ Len(symbol) = 6
                      /\ Digits4(SubSeq(symbol, 1, 4))
                      /\ SubSeq(symbol, 5, 6) = <<".", "T">>
                      /\ IsTrue(is_jp_stock_code_value(symbol))
                      /\ get_jp_stock_yf_symbol_value(symbol) = Tuple(<<symbol, None>>)

=============================================================================
